---- MODULE Spec2Model ----
(***************************************************************************)
(* Model of src/server.py: the Bedrock guardrails tool server.             *)
(*                                                                         *)
(* Python values are tagged records:                                       *)
(*   None          [t |-> "none"]                                          *)
(*   False / True  [t |-> "bool", v |-> "False"]                           *)
(*   0             [t |-> "int",  v |-> "0"]                               *)
(*   a str         [t |-> "str",  v |-> <<piece, ...>>]  (its pieces, in   *)
(*                 order: the literal and interpolated parts of the text)  *)
(*   a dict        [t |-> "dict", items |-> << <<key, value>>, ... >>]     *)
(*                 (insertion order, keys distinct)                        *)
(*   a list        [t |-> "list", items |-> <<value, ...>>]                *)
(***************************************************************************)
EXTENDS Integers, Sequences, FiniteSets, TLC

VARIABLES
    bedrock,    \* the module-level boto3 client (server.py:30), as its kwargs
    calls,      \* per invocation slot: the handler's locals and its outcome
    M,          \* normalizer harness: the value handed to _filter_none
    once,       \* normalizer harness: _filter_none(M), or Unset
    twice       \* normalizer harness: _filter_none(once), or Unset

vars == <<bedrock, calls, M, once, twice>>

-----------------------------------------------------------------------------
(* Python values *)

None == [t |-> "none"]
False == [t |-> "bool", v |-> "False"]
True == [t |-> "bool", v |-> "True"]
Zero == [t |-> "int", v |-> "0"]
Str(pieces) == [t |-> "str", v |-> pieces]
EmptyStr == Str(<<>>)
Dict(items) == [t |-> "dict", items |-> items]
List(items) == [t |-> "list", items |-> items]
Unset == [t |-> "unset"]

IsDict(d) == d.t = "dict"
IsList(d) == d.t = "list"

\* dict.get(key): the value stored under key, None when the key is absent
Get(d, key) ==
    IF \E i \in 1..Len(d.items) : d.items[i][1] = key
    THEN d.items[CHOOSE i \in 1..Len(d.items) : d.items[i][1] = key][2]
    ELSE None

HasKey(d, key) == \E i \in 1..Len(d.items) : d.items[i][1] = key

Keys(d) == [i \in 1..Len(d.items) |-> d.items[i][1]]

\* Python truthiness of the values the model uses
Truthy(d) ==
    CASE d.t = "none" -> FALSE
      [] d.t = "bool" -> d.v = "True"
      [] d.t = "int" -> d.v # "0"
      [] d.t = "str" -> d.v # <<>>
      [] d.t = "dict" -> d.items # <<>>
      [] d.t = "list" -> d.items # <<>>

-----------------------------------------------------------------------------
(* _filter_none, server.py:32-38 *)

\* a plausible slip: the comprehension filters but does not recurse
_filter_none_shallow(d) ==
    IF IsDict(d)
    THEN Dict(SelectSeq(d.items, LAMBDA kv : kv[2] # None))
    ELSE IF IsList(d)
    THEN List(SelectSeq(d.items, LAMBDA x : x # None))
    ELSE d

RECURSIVE _filter_none_truthy(_)
\* a plausible slip: "if v" where the code says "if v is not None"
_filter_none_truthy(d) ==
    IF IsDict(d)
    THEN LET kept == SelectSeq(d.items, LAMBDA kv : Truthy(kv[2]))
         IN  Dict([i \in 1..Len(kept) |->
                      <<kept[i][1], _filter_none_truthy(kept[i][2])>>])
    ELSE IF IsList(d)
    THEN LET kept == SelectSeq(d.items, LAMBDA x : Truthy(x))
         IN  List([i \in 1..Len(kept) |-> _filter_none_truthy(kept[i])])
    ELSE d

RECURSIVE _filter_none(_)
_filter_none(d) ==
    IF IsDict(d)
    THEN \* {k: _filter_none(v) for k, v in d.items() if v is not None}
         LET kept == SelectSeq(d.items, LAMBDA kv : kv[2] # None)
         IN  Dict([i \in 1..Len(kept) |->
                      <<kept[i][1], _filter_none(kept[i][2])>>])
    ELSE IF IsList(d)
    THEN \* [_filter_none(x) for x in d if x is not None]
         LET kept == SelectSeq(d.items, LAMBDA x : x # None)
         IN  List([i \in 1..Len(kept) |-> _filter_none(kept[i])])
    ELSE d

-----------------------------------------------------------------------------
(* The nested values the normalizer harness enumerates *)

\* most nodes (scalars and containers, each counted once) in an enumerated value
MaxNodes == 4

\* the scalars: None and the three falsy scalars the normalizer must keep
Scalars == {None, False, Zero, EmptyStr}

\* the dict keys of the enumerated values
SomeKeys == {"a", "b"}

RECURSIVE ValuesOfSize(_), ListsOfTotal(_), ItemsOfTotal(_, _)

\* the sequences of values whose node counts sum to n
ListsOfTotal(n) ==
    IF n = 0 THEN {<<>>}
    ELSE UNION {{<<v>> \o rest : v \in ValuesOfSize(k), rest \in ListsOfTotal(n - k)} :
                   k \in 1..n}

\* the (key, value) sequences over distinct keys of ks whose values' node counts sum to n
ItemsOfTotal(n, ks) ==
    IF n = 0 THEN {<<>>}
    ELSE UNION {{<< <<key, v>> >> \o rest :
                     v \in ValuesOfSize(k), rest \in ItemsOfTotal(n - k, ks \ {key})} :
                   <<k, key>> \in (1..n) \X ks}

ValuesOfSize(n) ==
    IF n = 1
    THEN Scalars \cup {Dict(<<>>), List(<<>>)}
    ELSE {List(s) : s \in ListsOfTotal(n - 1)}
         \cup {Dict(s) : s \in ItemsOfTotal(n - 1, SomeKeys)}

Values == UNION {ValuesOfSize(n) : n \in 1..MaxNodes}

-----------------------------------------------------------------------------
(* The process-level client, server.py:16-30 *)

\* os.environ.get(name): None when the variable is unset
Environ ==
    [AWS_ACCESS_KEY_ID : {None, Str(<<"AKIA">>)},
     AWS_SECRET_ACCESS_KEY : {None, Str(<<"secret">>)},
     AWS_SESSION_TOKEN : {None, Str(<<"token">>)},
     AWS_REGION : {None, Str(<<"eu-west-1">>)}]

boto3_kwargs(env) ==
    LET aws_region ==
            IF env.AWS_REGION = None THEN Str(<<"us-east-1">>) ELSE env.AWS_REGION
        token ==
            IF Truthy(env.AWS_SESSION_TOKEN)
            THEN << <<"aws_session_token", env.AWS_SESSION_TOKEN>> >>
            ELSE <<>>
        creds ==
            IF Truthy(env.AWS_ACCESS_KEY_ID) /\ Truthy(env.AWS_SECRET_ACCESS_KEY)
            THEN << <<"aws_access_key_id", env.AWS_ACCESS_KEY_ID>>,
                    <<"aws_secret_access_key", env.AWS_SECRET_ACCESS_KEY>> >> \o token
            ELSE <<>>
    IN  Dict(<< <<"region_name", aws_region>> >> \o creds)

\* the client when no variable of the environment is set
DefaultClient ==
    boto3_kwargs([AWS_ACCESS_KEY_ID |-> None, AWS_SECRET_ACCESS_KEY |-> None,
                  AWS_SESSION_TOKEN |-> None, AWS_REGION |-> None])

-----------------------------------------------------------------------------
(* The external API: what one call of the boto3 client can come to *)

Ok(response) == [kind |-> "ok", response |-> response]

\* botocore.exceptions.ClientError: the service answered with an error
ClientError(code, operation) ==
    [kind |-> "ClientError", code |-> code, operation |-> operation]

\* any other botocore failure of the call (no answer from the service, or the
\* request refused before it is sent); none of them is a ClientError
BotoCoreError(code) == [kind |-> "BotoCoreError", code |-> code]

ClientErrorCodes(operation) ==
    IF operation \in {"ListGuardrails", "CreateGuardrail"}
    THEN {"ThrottlingException"}
    ELSE {"ResourceNotFoundException", "ThrottlingException"}

BotoCoreErrorCodes(operation) ==
    IF operation \in {"CreateGuardrail", "UpdateGuardrail"}
    THEN {"ParamValidationError"}
    ELSE {"EndpointConnectionError"}

Failures(operation) ==
    {ClientError(code, operation) : code \in ClientErrorCodes(operation)}
    \cup {BotoCoreError(code) : code \in BotoCoreErrorCodes(operation)}

Outcomes(operation, responses) == {Ok(r) : r \in responses} \cup Failures(operation)

\* str(e) of a ClientError
ErrorText(e) ==
    <<"An error occurred (", e.code, ") when calling the ", e.operation, " operation">>

\* a handler's outcome: it returns a value or it propagates the exception
Return(value) == [kind |-> "return", value |-> value]
Raise(e) == [kind |-> "raise", exc |-> e]

Request(operation, kwargs) == [operation |-> operation, kwargs |-> kwargs]

-----------------------------------------------------------------------------
(* Invocation slots *)

\* the invocations that may be in flight at once
Calls == {"c1", "c2"}

Idle == [pc |-> "idle"]

IsDone(c) == calls[c].pc = "done"

\* the slot of a handler that issued one API call and ended
Done(op, args, request, o, result) ==
    [pc |-> "done", op |-> op, args |-> args,
     sent |-> <<request>>, got |-> <<o>>, result |-> result]

\* the caller takes the outcome: the slot is free for the next invocation
Deliver(c) ==
    /\ IsDone(c)
    /\ calls' = [calls EXCEPT ![c] = Idle]
    /\ UNCHANGED <<bedrock, M, once, twice>>

-----------------------------------------------------------------------------
(* list_guardrails, server.py:40-51 *)

\* most pages the paginated backend serves to one listing
MaxPages == 3

Summary(id) == Dict(<< <<"id", Str(<<id>>)>> >>)

\* page.get("guardrailSummaries", [])
Summaries(page) ==
    IF HasKey(page, "guardrailSummaries") THEN Get(page, "guardrailSummaries").items
    ELSE <<>>

\* the pages a backend may serve: without the key, without summaries, with one, with two
PageBodies ==
    {<<>>,
     << <<"guardrailSummaries", List(<<>>)>> >>,
     << <<"guardrailSummaries", List(<<Summary("gr-1")>>)>> >>,
     << <<"guardrailSummaries", List(<<Summary("gr-2"), Summary("gr-1")>>)>> >>}

NextToken == <<"nextToken", Str(<<"more">>)>>

\* the page numbered n: the last page the backend may serve carries no token
Pages(n) ==
    {Dict(body) : body \in PageBodies}
    \cup (IF n < MaxPages THEN {Dict(body \o <<NextToken>>) : body \in PageBodies}
          ELSE {})

ListOp == "list_guardrails"

\* a plausible slip: the newest page goes in front
ExtendInFront(guardrails, page) == Summaries(page) \o guardrails

\* guardrails.extend(page.get("guardrailSummaries", []))
Extend(guardrails, page) == guardrails \o Summaries(page)

\* a plausible slip: "guardrails" is one module-level list, which every
\* invocation in flight extends
SharedGuardrails(c) ==
    LET other == CHOOSE d \in Calls : d # c
    IN  (IF calls[other].pc = "paging" THEN calls[other].guardrails ELSE <<>>)
        \o calls[c].guardrails

\* the list this invocation accumulates into: its own local
Guardrails(c) == calls[c].guardrails

\* paginator = bedrock.get_paginator("list_guardrails"); guardrails = []
list_guardrails_begin(c) ==
    /\ calls[c].pc = "idle"
    /\ calls' = [calls EXCEPT ![c] =
                    [pc |-> "paging", op |-> ListOp, args |-> <<>>,
                     sent |-> <<>>, got |-> <<>>, guardrails |-> <<>>]]
    /\ UNCHANGED <<bedrock, M, once, twice>>

\* one turn of "for page in paginator.paginate()": the fetch of the next page,
\* then the loop body, the normal return or the except clause
list_guardrails_page(c) ==
    /\ calls[c].pc = "paging"
    /\ \E o \in Outcomes("ListGuardrails", Pages(Len(calls[c].got) + 1)) :
       LET me == calls[c]
           request ==
               Request("ListGuardrails",
                       IF me.got = <<>> THEN Dict(<<>>) ELSE Dict(<<NextToken>>))
           sent == Append(me.sent, request)
           got == Append(me.got, o)
           done(result) ==
               [pc |-> "done", op |-> ListOp, args |-> <<>>,
                sent |-> sent, got |-> got, result |-> result]
       IN  calls' = [calls EXCEPT ![c] =
               IF o.kind = "ok"
               THEN LET guardrails == Extend(Guardrails(c), o.response)
                    IN  IF HasKey(o.response, "nextToken")
                        THEN [me EXCEPT !.sent = sent, !.got = got,
                                        !.guardrails = guardrails]
                        ELSE done(Return(List(guardrails)))
               ELSE IF o.kind = "ClientError"
               THEN done(Return(List(<<>>)))
               ELSE done(Raise(o))]
    /\ UNCHANGED <<bedrock, M, once, twice>>

-----------------------------------------------------------------------------
(* get_guardrail, server.py:53-61 *)

Ids == {Str(<<"gr-1">>), Str(<<"gr-2">>)}

\* the configuration of the spec's example
G1 ==
    Dict(<< <<"name", Str(<<"g1">>)>>,
            <<"blockedInputMessaging", Str(<<"blocked-in">>)>>,
            <<"blockedOutputsMessaging", Str(<<"blocked-out">>)>> >>)

\* answers of GetGuardrail: without the envelope, with an empty one, with G1
GetResponses ==
    {Dict(<<>>), Dict(<< <<"guardrail", Dict(<<>>)>> >>), Dict(<< <<"guardrail", G1>> >>)}

GetRequest(guardrail_id) ==
    Request("GetGuardrail", Dict(<< <<"guardrailIdentifier", guardrail_id>> >>))

get_guardrail_result(guardrail_id, o) ==
    IF o.kind = "ok" THEN Return(Get(o.response, "guardrail"))
    ELSE IF o.kind = "ClientError" THEN Return(None)
    ELSE Raise(o)

get_guardrail(c, responses) ==
    /\ calls[c].pc = "idle"
    /\ \E guardrail_id \in Ids, o \in Outcomes("GetGuardrail", responses) :
           calls' = [calls EXCEPT ![c] =
               Done("get_guardrail", [guardrail_id |-> guardrail_id],
                    GetRequest(guardrail_id), o,
                    get_guardrail_result(guardrail_id, o))]
    /\ UNCHANGED <<bedrock, M, once, twice>>

-----------------------------------------------------------------------------
(* delete_guardrail, server.py:172-180 *)

delete_guardrail_result(guardrail_id, o) ==
    IF o.kind = "ok" THEN Return(True)
    ELSE IF o.kind = "ClientError" THEN Return(False)
    ELSE Raise(o)

delete_guardrail(c, responses) ==
    /\ calls[c].pc = "idle"
    /\ \E guardrail_id \in Ids, o \in Outcomes("DeleteGuardrail", responses) :
           calls' = [calls EXCEPT ![c] =
               Done("delete_guardrail", [guardrail_id |-> guardrail_id],
                    Request("DeleteGuardrail",
                            Dict(<< <<"guardrailIdentifier", guardrail_id>> >>)),
                    o, delete_guardrail_result(guardrail_id, o))]
    /\ UNCHANGED <<bedrock, M, once, twice>>

DeleteResponses == {Dict(<<>>)}

-----------------------------------------------------------------------------
(* create_guardrail_full, server.py:63-98 *)

\* the handler's parameters with the key each is sent under, in payload order
CreateParams ==
    << <<"name", "name">>,
       <<"blocked_input_messaging", "blockedInputMessaging">>,
       <<"blocked_outputs_messaging", "blockedOutputsMessaging">>,
       <<"description", "description">>,
       <<"content_policy_config", "contentPolicyConfig">>,
       <<"contextual_grounding_policy_config", "contextualGroundingPolicyConfig">>,
       <<"cross_region_config", "crossRegionConfig">>,
       <<"kms_key_arn", "kmsKeyId">>,
       <<"sensitive_information_policy_config", "sensitiveInformationPolicyConfig">>,
       <<"tags", "tags">>,
       <<"topic_policy_config", "topicPolicyConfig">>,
       <<"word_policy_config", "wordPolicyConfig">> >>

\* the dict literal of the handler: every parameter under its key, None included
Literal(params, args) ==
    Dict([i \in 1..Len(params) |-> <<params[i][2], args[params[i][1]]>>])

\* a plausible slip: the payload is sent as built, unset parameters included
create_payload_unfiltered(args) == Literal(CreateParams, args)

create_payload(args) == _filter_none(Literal(CreateParams, args))

create_guardrail_result(o) ==
    IF o.kind = "ok" THEN Return(o.response)
    ELSE IF o.kind = "ClientError"
    THEN Return(Dict(<< <<"error", Str(ErrorText(o))>> >>))
    ELSE Raise(o)

create_guardrail_full(c, inputs, responses) ==
    /\ calls[c].pc = "idle"
    /\ \E args \in inputs, o \in Outcomes("CreateGuardrail", responses) :
           calls' = [calls EXCEPT ![c] =
               Done("create_guardrail_full", args,
                    Request("CreateGuardrail", create_payload(args)),
                    o, create_guardrail_result(o))]
    /\ UNCHANGED <<bedrock, M, once, twice>>

CreateResponses == {Dict(<< <<"guardrailId", Str(<<"gr-1">>)>>, <<"version", Str(<<"DRAFT">>)>> >>)}

-----------------------------------------------------------------------------
(* update_guardrail_full, server.py:100-137 *)

UpdateParams == << <<"guardrail_id", "guardrailIdentifier">> >> \o CreateParams

update_payload(args) == _filter_none(Literal(UpdateParams, args))

update_guardrail_result(guardrail_id, o) ==
    IF o.kind = "ok" THEN Return(o.response)
    ELSE IF o.kind = "ClientError"
    THEN Return(Dict(<< <<"error", Str(ErrorText(o))>> >>))
    ELSE Raise(o)

update_guardrail_full(c, inputs, responses) ==
    /\ calls[c].pc = "idle"
    /\ \E args \in inputs, o \in Outcomes("UpdateGuardrail", responses) :
           calls' = [calls EXCEPT ![c] =
               Done("update_guardrail_full", args,
                    Request("UpdateGuardrail", update_payload(args)),
                    o, update_guardrail_result(args.guardrail_id, o))]
    /\ UNCHANGED <<bedrock, M, once, twice>>

UpdateResponses == {Dict(<< <<"guardrailId", Str(<<"gr-1">>)>>, <<"version", Str(<<"DRAFT">>)>> >>)}

-----------------------------------------------------------------------------
(* json.dumps(obj, indent=2), as used at server.py:166 *)

RECURSIVE Spaces(_)
Spaces(n) == IF n = 0 THEN "" ELSE "  " \o Spaces(n - 1)

\* the line break before an item nested level deep
NewLine(level) == "\n" \o Spaces(level)

RECURSIVE json_dumps(_, _), json_items(_, _, _)

\* the items of a non-empty container, each on its own line, separated by ","
json_items(items, isDict, level) ==
    LET item(i) ==
            <<NewLine(level)>>
            \o (IF isDict
                THEN <<"\"", items[i][1], "\": ">> \o json_dumps(items[i][2], level)
                ELSE json_dumps(items[i], level))
            \o (IF i < Len(items) THEN <<",">> ELSE <<>>)
        rec[i \in 0..Len(items)] == IF i = 0 THEN <<>> ELSE rec[i - 1] \o item(i)
    IN  rec[Len(items)]

\* the pieces of the JSON text of a value that stands level deep
json_dumps(d, level) ==
    CASE d.t = "none" -> <<"null">>
      [] d.t = "bool" -> <<IF d.v = "True" THEN "true" ELSE "false">>
      [] d.t = "int" -> <<d.v>>
      [] d.t = "str" -> <<"\"">> \o d.v \o <<"\"">>
      [] d.t = "dict" ->
            IF d.items = <<>> THEN <<"{}">>
            ELSE <<"{">> \o json_items(d.items, TRUE, level + 1)
                 \o <<NewLine(level), "}">>
      [] d.t = "list" ->
            IF d.items = <<>> THEN <<"[]">>
            ELSE <<"[">> \o json_items(d.items, FALSE, level + 1)
                 \o <<NewLine(level), "]">>

-----------------------------------------------------------------------------
(* export_guardrail_to_terraform, server.py:139-170 *)

\* the properties of the resource with the field of g each is read from
ExportFields ==
    << <<"Name", "name">>,
       <<"Description", "description">>,
       <<"BlockedInputMessaging", "blockedInputMessaging">>,
       <<"BlockedOutputsMessaging", "blockedOutputsMessaging">>,
       <<"ContentPolicyConfig", "contentPolicy">>,
       <<"ContextualGroundingPolicyConfig", "contextualGroundingPolicy">>,
       <<"CrossRegionConfig", "crossRegionConfig">>,
       <<"KmsKeyArn", "kmsKeyArn">>,
       <<"SensitiveInformationPolicyConfig", "sensitiveInformationPolicy">>,
       <<"Tags", "tags">>,
       <<"TopicPolicyConfig", "topicPolicy">>,
       <<"WordPolicyConfig", "wordPolicy">> >>

ResourceType == "AWS::Bedrock::Guardrail"

\* a plausible slip: the policies are read under the names the create call sends
tf_props_request_names(g) ==
    Dict(<< <<"Type", Str(<<ResourceType>>)>>,
            <<"Properties",
              _filter_none(Dict([i \in 1..Len(ExportFields) |->
                  <<ExportFields[i][1], Get(g, CreateParams[i][2])>>]))>> >>)

tf_props(g) ==
    Dict(<< <<"Type", Str(<<ResourceType>>)>>,
            <<"Properties",
              _filter_none(Dict([i \in 1..Len(ExportFields) |->
                  <<ExportFields[i][1], Get(g, ExportFields[i][2])>> ]))>> >>)

\* f'resource "awscc_bedrock_guardrail" "{tf_resource_name}" '
Header(tf_resource_name) ==
    <<"resource \"awscc_bedrock_guardrail\" \"">> \o tf_resource_name.v \o <<"\" ">>

\* the default of tf_resource_name, and a label of the caller's
Labels == {Str(<<"bedrock_guardrail">>), Str(<<"main">>)}

export_result(guardrail_id, tf_resource_name, o) ==
    IF o.kind = "ok"
    THEN LET g == Get(o.response, "guardrail")
         IN  IF ~Truthy(g)
             THEN Return(Str(<<"No guardrail found for id ">> \o guardrail_id.v))
             ELSE Return(Str(Header(tf_resource_name) \o json_dumps(tf_props(g), 0)))
    ELSE IF o.kind = "ClientError"
    THEN Return(Str(<<"Error: ">> \o ErrorText(o)))
    ELSE Raise(o)

export_guardrail_to_terraform(c, ids, responses) ==
    /\ calls[c].pc = "idle"
    /\ \E guardrail_id \in ids, tf_resource_name \in Labels,
          o \in Outcomes("GetGuardrail", responses) :
           calls' = [calls EXCEPT ![c] =
               Done("export_guardrail_to_terraform",
                    [guardrail_id |-> guardrail_id,
                     tf_resource_name |-> tf_resource_name],
                    GetRequest(guardrail_id), o,
                    export_result(guardrail_id, tf_resource_name, o))]
    /\ UNCHANGED <<bedrock, M, once, twice>>

-----------------------------------------------------------------------------
(* The dispatcher: invocations of the six tools, interleaved *)

\* the state once the module is loaded: the client is built, nothing is in flight
Init ==
    /\ bedrock \in {boto3_kwargs(env) : env \in Environ}
    /\ calls = [c \in Calls |-> Idle]
    /\ M = None
    /\ once = Unset
    /\ twice = Unset

OptionalNone ==
    [description : {None}, content_policy_config : {None},
     contextual_grounding_policy_config : {None}, cross_region_config : {None},
     kms_key_arn : {None}, sensitive_information_policy_config : {None},
     tags : {None}, topic_policy_config : {None}, word_policy_config : {None}]

\* r with the fields of s added
Merge(r, s) ==
    [k \in DOMAIN r \cup DOMAIN s |-> IF k \in DOMAIN s THEN s[k] ELSE r[k]]

\* create_guardrail_full with the required parameters and, or not, a description
CreateArgs ==
    {Merge(opt, req) :
        opt \in OptionalNone,
        req \in [name : {Str(<<"g1">>)},
                 blocked_input_messaging : {Str(<<"blocked-in">>)},
                 blocked_outputs_messaging : {Str(<<"blocked-out">>)},
                 description : {None, Str(<<"d">>)}]}

\* update_guardrail_full with the identifier and, or not, a new name
UpdateArgs ==
    {Merge(opt, req) :
        opt \in OptionalNone,
        req \in [guardrail_id : Ids,
                 name : {None, Str(<<"g2">>)},
                 blocked_input_messaging : {None},
                 blocked_outputs_messaging : {None}]}

Next ==
    \E c \in Calls :
        \/ list_guardrails_begin(c)
        \/ list_guardrails_page(c)
        \/ get_guardrail(c, GetResponses)
        \/ create_guardrail_full(c, CreateArgs, CreateResponses)
        \/ update_guardrail_full(c, UpdateArgs, UpdateResponses)
        \/ export_guardrail_to_terraform(c, Ids, GetResponses)
        \/ delete_guardrail(c, DeleteResponses)
        \/ Deliver(c)

Spec == Init /\ [][Next]_vars

-----------------------------------------------------------------------------
(* Payload shaping: create, update and export over full configurations *)

\* most recognized fields present at once in a fetched configuration (the
\* configuration with all twelve is added to these)
MaxFields == 3

\* a value for each field of ExportFields and each parameter of CreateParams
\* after the three messages, in that order
Samples ==
    << Str(<<"g1">>),
       EmptyStr,
       Str(<<"blocked-in">>),
       Str(<<"blocked-out">>),
       Dict(<< <<"filtersConfig",
                 List(<<Dict(<< <<"type", Str(<<"HATE">>)>>,
                                <<"inputStrength", None>> >>),
                        None>>)>> >>),
       Dict(<< <<"filtersConfig", List(<<>>)>> >>),
       Dict(<< <<"guardrailProfileIdentifier", Str(<<"profile">>)>> >>),
       Str(<<"arn:aws:kms:key">>),
       Dict(<< <<"piiEntitiesConfig", None>> >>),
       List(<<Dict(<< <<"key", Str(<<"env">>)>>, <<"value", False>> >>)>>),
       Dict(<< <<"topicsConfig", List(<<None>>)>> >>),
       Dict(<<>>) >>

FieldNumbers == 1..Len(ExportFields)

\* the configuration GetGuardrail answers with: an identifier, then the fields
\* of present, last field first; those of nones are present with the value None
Config(present, nones) ==
    LET nums == SelectSeq([i \in FieldNumbers |-> Len(ExportFields) + 1 - i],
                          LAMBDA i : i \in present)
    IN  Dict(<< <<"guardrailId", Str(<<"gr-1">>)>> >>
             \o [k \in 1..Len(nums) |->
                    <<ExportFields[nums[k]][2],
                      IF nums[k] \in nones THEN None ELSE Samples[nums[k]]>>])

Configs ==
    {Config(present, nones) :
        <<present, nones>> \in
            {pn \in (SUBSET FieldNumbers) \X (SUBSET FieldNumbers) :
                /\ pn[2] \subseteq pn[1]
                /\ Cardinality(pn[1]) <= MaxFields}}
    \cup {Config(FieldNumbers, {})}

FullGetResponses == GetResponses \cup {Dict(<< <<"guardrail", g>> >>) : g \in Configs}

OptionalFull ==
    [description : {None, Samples[2], Str(<<"d">>)},
     content_policy_config : {None, Samples[5]},
     contextual_grounding_policy_config : {None, Samples[6]},
     cross_region_config : {None, Samples[7]},
     kms_key_arn : {None, Samples[8]},
     sensitive_information_policy_config : {None, Samples[9]},
     tags : {None, List(<<>>), List(<<None>> \o Samples[10].items)},
     topic_policy_config : {None, Samples[11]},
     word_policy_config : {None, Samples[12]}]

FullCreateArgs ==
    {Merge(opt, req) :
        opt \in OptionalFull,
        req \in [name : {Str(<<"g1">>)},
                 blocked_input_messaging : {Str(<<"blocked-in">>)},
                 blocked_outputs_messaging : {Str(<<"blocked-out">>)}]}

FullUpdateArgs ==
    {Merge(opt, req) :
        opt \in OptionalFull,
        req \in [guardrail_id : {Str(<<"gr-1">>)},
                 name : {None, Str(<<"g2">>)},
                 blocked_input_messaging : {None, EmptyStr},
                 blocked_outputs_messaging : {None, Str(<<"blocked-out">>)}]}

\* one invocation at a time, of the three tools that shape a payload
ShapingNext ==
    \/ create_guardrail_full("c1", FullCreateArgs, CreateResponses)
    \/ update_guardrail_full("c1", FullUpdateArgs, UpdateResponses)
    \/ export_guardrail_to_terraform("c1", {Str(<<"gr-1">>)}, FullGetResponses)
    \/ Deliver("c1")

SpecShaping == Init /\ [][ShapingNext]_vars

-----------------------------------------------------------------------------
(* Normalizer harness: apply _filter_none to M, then to its own result *)

FilterInit ==
    /\ M \in Values
    /\ once = Unset
    /\ twice = Unset
    /\ bedrock = DefaultClient
    /\ calls = [c \in Calls |-> Idle]

FilterOnce ==
    /\ once = Unset
    /\ once' = _filter_none(M)
    /\ UNCHANGED <<bedrock, calls, M, twice>>

FilterTwice ==
    /\ once # Unset
    /\ twice = Unset
    /\ twice' = _filter_none(once)
    /\ UNCHANGED <<bedrock, calls, M, once>>

FilterNext == FilterOnce \/ FilterTwice

SpecFilter == FilterInit /\ [][FilterNext]_vars

-----------------------------------------------------------------------------
(* Claims about _filter_none, checked under SpecFilter *)

\* C3: _filter_none is idempotent: filtering the result of _filter_none(M)
\* again gives that same result, for every nested value M.
C3_Idempotent == twice # Unset => twice = once

\* _filter_none ran twice on a value with a None at the top and one in a nested list
C3_Witness ==
    /\ twice # Unset
    /\ M = Dict(<< <<"a", List(<<None>>)>>, <<"b", None>> >>)
    /\ once = Dict(<< <<"a", List(<<>>)>> >>)

RECURSIVE NoNoneInside(_)
\* no dict entry and no list element of d, at any depth, is None
NoNoneInside(d) ==
    IF IsDict(d)
    THEN \A i \in 1..Len(d.items) :
             d.items[i][2] # None /\ NoNoneInside(d.items[i][2])
    ELSE IF IsList(d)
    THEN \A i \in 1..Len(d.items) : d.items[i] # None /\ NoNoneInside(d.items[i])
    ELSE TRUE

\* C4: for every nested dict or list M, _filter_none(M) holds at no depth a
\* dict entry whose value is None nor a list element that is None.
C4_NoNoneLeft == (once # Unset /\ (IsDict(M) \/ IsList(M))) => NoNoneInside(once)

\* _filter_none ran on a list holding a None and a dict with a None entry
C4_Witness ==
    /\ once # Unset
    /\ M = List(<<Dict(<< <<"a", None>> >>), None>>)
    /\ once = List(<<Dict(<<>>)>>)

RECURSIVE OnlyNoneRemoved(_, _)
\* out is in with exactly the None entries and None elements taken out, at every
\* depth: what is not None keeps its key, its order and (scalars) its value, and
\* a container stays a container even when nothing is left in it
OnlyNoneRemoved(in, out) ==
    IF IsDict(in)
    THEN LET present == {i \in 1..Len(in.items) : in.items[i][2] # None}
             \* the position in out of the i-th entry of in
             pos(i) == Cardinality({j \in present : j <= i})
         IN  /\ IsDict(out)
             /\ Len(out.items) = Cardinality(present)
             /\ \A i \in present :
                    /\ out.items[pos(i)][1] = in.items[i][1]
                    /\ OnlyNoneRemoved(in.items[i][2], out.items[pos(i)][2])
    ELSE IF IsList(in)
    THEN LET present == {i \in 1..Len(in.items) : in.items[i] # None}
             pos(i) == Cardinality({j \in present : j <= i})
         IN  /\ IsList(out)
             /\ Len(out.items) = Cardinality(present)
             /\ \A i \in present : OnlyNoneRemoved(in.items[i], out.items[pos(i)])
    ELSE out = in

\* C5: _filter_none only removes None: every entry and element that is not
\* None is kept with its key and relative order (False, 0 and "" included), an
\* empty or emptied container is kept as empty, and the output has no key that
\* the input did not hold with a non-None value.
C5_OnlyNoneRemoved == once # Unset => OnlyNoneRemoved(M, once)

\* _filter_none ran on a dict with a list that empties and a False that stays
C5_Witness ==
    /\ once # Unset
    /\ M = Dict(<< <<"a", List(<<None>>)>>, <<"b", False>> >>)
    /\ once = Dict(<< <<"a", List(<<>>)>>, <<"b", False>> >>)

-----------------------------------------------------------------------------
(* Claims about the dispatcher, checked under Spec *)

Last(seq) == seq[Len(seq)]

\* the API call the invocation of slot c ended on failed
CallFailed(c) == IsDone(c) /\ Last(calls[c].got).kind # "ok"

\* value is the declared soft-failure value of the tool op
IsSoftFailure(op, value) ==
    CASE op = "list_guardrails" -> value = List(<<>>)
      [] op = "get_guardrail" -> value = None
      [] op = "delete_guardrail" -> value = False
      [] op \in {"create_guardrail_full", "update_guardrail_full"} ->
            IsDict(value) /\ Keys(value) = <<"error">>
      [] op = "export_guardrail_to_terraform" ->
            value.t = "str" /\ value.v # <<>> /\ Head(value.v) = "Error: "

\* C1: whatever the failure of the external API call, each of the six tools
\* returns its soft-failure value and does not propagate the failure.
C1_SoftFailureOnAnyFailure ==
    \A c \in Calls :
        CallFailed(c) =>
            /\ calls[c].result.kind = "return"
            /\ IsSoftFailure(calls[c].op, calls[c].result.value)

\* the pages answered to a listing, flattened in page order
Flattened(got) ==
    LET summaries(page) ==
            IF \E i \in 1..Len(page.items) : page.items[i][1] = "guardrailSummaries"
            THEN Get(page, "guardrailSummaries").items
            ELSE <<>>
        upto[n \in 0..Len(got)] ==
            IF n = 0 THEN <<>> ELSE upto[n - 1] \o summaries(got[n].response)
    IN  upto[Len(got)]

\* C2: when no page fetch fails, list_guardrails fetches pages until one comes
\* without a continuation token and returns the pages' summaries concatenated
\* in page order and within-page order, whatever the number of pages.
C2_AllPagesInOrder ==
    \A c \in Calls :
        (/\ IsDone(c)
         /\ calls[c].op = ListOp
         /\ \A i \in 1..Len(calls[c].got) : calls[c].got[i].kind = "ok")
        => LET got == calls[c].got
           IN  /\ calls[c].result = Return(List(Flattened(got)))
               /\ Len(calls[c].sent) = Len(got)
               /\ \A i \in 1..Len(got) :
                      HasKey(got[i].response, "nextToken") <=> i < Len(got)

\* a listing ended after three pages of 2, 2 and 1 summaries: five in order
C2_Witness ==
    /\ IsDone("c1")
    /\ calls["c1"].op = ListOp
    /\ Len(calls["c1"].got) = 3
    /\ \A i \in 1..3 : calls["c1"].got[i].kind = "ok"
    /\ calls["c1"].result =
           Return(List(<<Summary("gr-2"), Summary("gr-1"), Summary("gr-2"),
                         Summary("gr-1"), Summary("gr-1")>>))

\* C7: get_guardrail returns None for an identifier that does not exist, as
\* it does for any other failed API call, and for one that exists it returns
\* the mapping under the "guardrail" key of the response, unmodified.
C7_GetAbsentOrUnwrapped ==
    \A c \in Calls :
        (IsDone(c) /\ calls[c].op = "get_guardrail") =>
            LET o == calls[c].got[1]
            IN  /\ o.kind # "ok" => calls[c].result = Return(None)
                /\ (o.kind = "ok" /\ HasKey(o.response, "guardrail")) =>
                       calls[c].result = Return(Get(o.response, "guardrail"))

IsResourceBlock(value) ==
    /\ value.t = "str"
    /\ value.v # <<>>
    /\ Head(value.v) = "resource \"awscc_bedrock_guardrail\" \""

\* C8: export_guardrail_to_terraform returns the not-found message naming the
\* identifier when the fetch returns no guardrail configuration, an error
\* string when the API call fails, and a resource block in neither case.
C8_ExportNotFoundOrError ==
    \A c \in Calls :
        (IsDone(c) /\ calls[c].op = "export_guardrail_to_terraform") =>
            LET o == calls[c].got[1]
                result == calls[c].result
                none == o.kind = "ok" /\ ~Truthy(Get(o.response, "guardrail"))
            IN  /\ none =>
                       result = Return(Str(<<"No guardrail found for id ">>
                                           \o calls[c].args.guardrail_id.v))
                /\ o.kind # "ok" =>
                       /\ result.kind = "return"
                       /\ result.value.t = "str"
                       /\ result.value.v # <<>>
                /\ (none \/ o.kind # "ok") =>
                       /\ result.kind = "return"
                       /\ ~IsResourceBlock(result.value)

\* two invocations of the same tool with the same arguments that got the same
\* answers from the API ended the same way
Deterministic ==
    \A c, d \in Calls :
        (/\ IsDone(c) /\ IsDone(d)
         /\ calls[c].op = calls[d].op
         /\ calls[c].args = calls[d].args
         /\ calls[c].got = calls[d].got)
        => calls[c].result = calls[d].result

\* a step of one invocation leaves the client and every other invocation as they were
Isolated ==
    /\ bedrock' = bedrock
    /\ \A c \in Calls :
           calls'[c] # calls[c] => \A d \in Calls \ {c} : calls'[d] = calls[d]

\* C9: the layer holds no mutable local state: no invocation, successful or
\* failed, alone or interleaved with another, changes the client, nor what
\* another invocation holds, and the outcome of an invocation depends only on
\* its arguments and on the API's answers to its own calls.
C9_NoSharedMutableState == [][Isolated]_vars /\ []Deterministic

\* two listings in the two slots got the same two pages and both ended
C9_Witness ==
    /\ IsDone("c1") /\ IsDone("c2")
    /\ calls["c1"].op = ListOp /\ calls["c2"].op = ListOp
    /\ Len(calls["c1"].got) = 2
    /\ calls["c1"].got = calls["c2"].got
    /\ calls["c1"].result = Return(List(<<Summary("gr-1"), Summary("gr-2"), Summary("gr-1")>>))
    /\ calls["c2"].result = calls["c1"].result

-----------------------------------------------------------------------------
(* Claims about payload shaping, checked under SpecShaping *)

ParamsOf(op) == IF op = "create_guardrail_full" THEN CreateParams ELSE UpdateParams

\* C10: the request create_guardrail_full and update_guardrail_full forward
\* has exactly one top-level key, the external name, for each argument that is
\* not None, none for an argument that is None, and no None at any depth;
\* update sends guardrailIdentifier; one API call is issued per invocation.
C10_ForwardedPayload ==
    \A c \in Calls :
        (IsDone(c) /\ calls[c].op \in {"create_guardrail_full", "update_guardrail_full"}) =>
            LET args == calls[c].args
                params == ParamsOf(calls[c].op)
                kwargs == calls[c].sent[1].kwargs
                names == {params[i][2] : i \in 1..Len(params)}
            IN  /\ Len(calls[c].sent) = 1
                /\ calls[c].sent[1].operation =
                       (IF calls[c].op = "create_guardrail_full"
                        THEN "CreateGuardrail" ELSE "UpdateGuardrail")
                /\ \A i \in 1..Len(params) :
                       LET arg == args[params[i][1]]
                           at == {j \in 1..Len(kwargs.items) :
                                     kwargs.items[j][1] = params[i][2]}
                       IN  /\ Cardinality(at) = (IF arg = None THEN 0 ELSE 1)
                           /\ arg # None =>
                                  OnlyNoneRemoved(arg, Get(kwargs, params[i][2]))
                /\ \A j \in 1..Len(kwargs.items) : kwargs.items[j][1] \in names
                /\ NoNoneInside(kwargs)
                /\ calls[c].op = "update_guardrail_full" =>
                       Get(kwargs, "guardrailIdentifier") = args.guardrail_id

\* an update was forwarded with a key, a tag list holding a None, and no name
C10_Witness ==
    /\ IsDone("c1")
    /\ calls["c1"].op = "update_guardrail_full"
    /\ calls["c1"].args.name = None
    /\ calls["c1"].args.kms_key_arn = Samples[8]
    /\ calls["c1"].args.tags = List(<<None>> \o Samples[10].items)
    /\ calls["c1"].args.content_policy_config = Samples[5]
    /\ Get(calls["c1"].sent[1].kwargs, "kmsKeyId") = Samples[8]
    /\ Get(calls["c1"].sent[1].kwargs, "tags") = Samples[10]
    /\ ~HasKey(calls["c1"].sent[1].kwargs, "name")

\* the recognized fields of the configuration g that are present and not None
FoundFields(g) ==
    SelectSeq(ExportFields, LAMBDA f : HasKey(g, f[2]) /\ Get(g, f[2]) # None)

\* the resource block the claim describes: the header with the label, then the
\* JSON object with exactly the keys Type and Properties
DescribedBlock(label, properties) ==
    Str(<<"resource \"awscc_bedrock_guardrail\" \"">> \o label.v \o <<"\" ">>
        \o json_dumps(Dict(<< <<"Type", Str(<<"AWS::Bedrock::Guardrail">>)>>,
                              <<"Properties", properties>> >>), 0))

\* the export of slot c fetched a configuration that is not empty
Exported(c) ==
    /\ IsDone(c)
    /\ calls[c].op = "export_guardrail_to_terraform"
    /\ calls[c].got[1].kind = "ok"
    /\ Truthy(Get(calls[c].got[1].response, "guardrail"))

\* C6 as stated: the export of a non-empty configuration g is the header with
\* the label, then the JSON object of Type and Properties, where Properties
\* has one renamed key for each recognized field of g that is present and not
\* None, with the fetched value, and no other key.
C6_ExportFetchedValues ==
    \A c \in Calls :
        Exported(c) =>
            LET g == Get(calls[c].got[1].response, "guardrail")
                found == FoundFields(g)
            IN  calls[c].result =
                    Return(DescribedBlock(calls[c].args.tf_resource_name,
                        Dict([i \in 1..Len(found) |->
                                 <<found[i][1], Get(g, found[i][2])>>])))

\* C6 amended: as C6, with each property's value the fetched value without
\* the None entries and None elements it holds at any depth.
C6_ExportFilteredValues ==
    \A c \in Calls :
        Exported(c) =>
            LET g == Get(calls[c].got[1].response, "guardrail")
                found == FoundFields(g)
            IN  calls[c].result =
                    Return(DescribedBlock(calls[c].args.tf_resource_name,
                        Dict([i \in 1..Len(found) |->
                                 <<found[i][1], _filter_none(Get(g, found[i][2]))>>])))

\* an export of a configuration with a name, a content policy that holds None
\* at two depths and a sensitive-information policy that is None
C6_Witness ==
    /\ Exported("c1")
    /\ calls["c1"].args.tf_resource_name = Str(<<"main">>)
    /\ Get(calls["c1"].got[1].response, "guardrail") = Config({1, 5, 9}, {9})
    /\ calls["c1"].result.value.v =
           <<"resource \"awscc_bedrock_guardrail\" \"", "main", "\" ",
             "{",
             "\n  ", "\"", "Type", "\": ", "\"", "AWS::Bedrock::Guardrail", "\"", ",",
             "\n  ", "\"", "Properties", "\": ", "{",
             "\n    ", "\"", "Name", "\": ", "\"", "g1", "\"", ",",
             "\n    ", "\"", "ContentPolicyConfig", "\": ", "{",
             "\n      ", "\"", "filtersConfig", "\": ", "[",
             "\n        ", "{",
             "\n          ", "\"", "type", "\": ", "\"", "HATE", "\"",
             "\n        ", "}",
             "\n      ", "]",
             "\n    ", "}",
             "\n  ", "}",
             "\n", "}">>

====
